---- MODULE Spec2Model ----
(***************************************************************************)
(* Serial communication subsystem of the Bifrost robot-arm controller:     *)
(*   - SerialThread (src/serial_thread.py): the background I/O loop,       *)
(*   - ConnectionManager (src/connection_manager.py): connect/disconnect,  *)
(*   - SerialResponseRouter (src/serial_response_router.py): routing of    *)
(*     the emitted lines.                                                  *)
(* SerialManager, config and parsing_patterns are not part of the source   *)
(* tree; the few operations used from them are modelled from the           *)
(* specification (command channel with a priority lane, handle open flag). *)
(*                                                                         *)
(* Time.  The loop reads the clock once per iteration (current_time) and   *)
(* only ever compares current_time - t against a configuration constant,   *)
(* for the three stored instants t (blocking_command_start_time,           *)
(* elapsed_time, endstop_check_time).  Each stored instant is therefore    *)
(* kept as its distance behind current_time, saturated just above the      *)
(* largest constant it is compared with; "t = current_time" is distance 0. *)
(***************************************************************************)
EXTENDS Integers, Sequences, FiniteSets

\* ------------------------------------------------------------------ bounds
MaxDelta == 1        \* largest clock advance (ticks) between two iterations
MaxNormal == 1       \* normal-lane capacity offered to the producers
MaxPriority == 1     \* priority-lane length up to which a manual refresh is issued
MaxPending == 1      \* device lines pending in the input buffer or not yet routed
MaxLoops == 2        \* I/O loop instances created over a run
MaxWorkers == 2      \* connect workers that may exist at once
MaxBacklog == 20     \* lines the device may have sent ahead of the router, in a burst

\* ------------------------------------------------- configuration (config.py)
BLOCKING_COMMAND_MIN_PAUSE == 1
BLOCKING_COMMAND_MAX_PAUSE == 2
SERIAL_STATUS_REQUEST_INTERVAL == 1
SERIAL_ENDSTOP_REQUEST_INTERVAL == 2

\* ------------------------------------------------------------ text helpers
\* A text is a tuple of one-character strings.
Lowers == <<"a","b","c","d","e","f","g","h","i","j","k","l","m",
            "n","o","p","q","r","s","t","u","v","w","x","y","z">>
Uppers == <<"A","B","C","D","E","F","G","H","I","J","K","L","M",
            "N","O","P","Q","R","S","T","U","V","W","X","Y","Z">>
Whitespace == {" ", "\n", "\r", "\t"}

UpperChar(ch) ==
    IF \E k \in 1..26 : Lowers[k] = ch
    THEN Uppers[CHOOSE k \in 1..26 : Lowers[k] = ch]
    ELSE ch

LowerChar(ch) ==
    IF \E k \in 1..26 : Uppers[k] = ch
    THEN Lowers[CHOOSE k \in 1..26 : Uppers[k] = ch]
    ELSE ch

upper(s) == [k \in 1..Len(s) |-> UpperChar(s[k])]
lower(s) == [k \in 1..Len(s) |-> LowerChar(s[k])]

\* str.strip(): drop leading and trailing whitespace.
strip(s) ==
    LET keep == {k \in 1..Len(s) : s[k] \notin Whitespace}
    IN  IF keep = {} THEN <<>>
        ELSE LET lo == CHOOSE k \in keep : \A j \in keep : k <= j
                 hi == CHOOSE k \in keep : \A j \in keep : k >= j
             IN  SubSeq(s, lo, hi)

startswith(s, p) == Len(p) <= Len(s) /\ SubSeq(s, 1, Len(p)) = p

\* "p in s" for texts.
contains(s, p) ==
    \E k \in 0..(Len(s) - Len(p)) : SubSeq(s, k + 1, k + Len(p)) = p

\* ----------------------------------------------------------------- commands
\* Commands are held in the lanes by name; CommandBytes gives the bytes.
PollCommands == {"M114", "M119"}
UserCommands == {"G28", "g29", "M999", "G1"}
Commands == PollCommands \cup UserCommands

CommandBytes(c) ==
    CASE c = "M114" -> <<"M","1","1","4","\n">>
      [] c = "M119" -> <<"M","1","1","9","\n">>
      [] c = "G28"  -> <<"G","2","8","\n">>
      [] c = "g29"  -> <<" ","g","2","9"," ","x","\n">>
      [] c = "M999" -> <<"M","9","9","9","\n">>
      [] c = "G1"   -> <<"G","1"," ","X","2","8","\n">>

BLOCKING_COMMANDS == << <<"G","2","8">>, <<"G","2","9">>, <<"M","9","9","9">> >>

\* Variant: the prefixes are compared with the unstripped command text.
IsBlockingCommand_Unstripped(c) ==
    LET command_str == upper(CommandBytes(c))
    IN  \E k \in 1..Len(BLOCKING_COMMANDS) :
            startswith(command_str, BLOCKING_COMMANDS[k])

\* serial_thread.py 108-110: command_str.startswith(block_cmd) for some prefix.
IsBlockingCommand(c) ==
    LET command_str == upper(strip(CommandBytes(c)))
    IN  \E k \in 1..Len(BLOCKING_COMMANDS) :
            startswith(command_str, BLOCKING_COMMANDS[k])

\* -------------------------------------------------------------------- lines
\* Lines the device may send, by name; LineBytes gives what readline returns.
DISCONNECT_MARKER ==
    <<"S","E","R","I","A","L","-","D","I","S","C","O","N","N","E","C","T","E","D">>

DeviceLines == {"ok", "pos"}
Lines == DeviceLines \cup {"SERIAL-DISCONNECTED"}

LineBytes(l) ==
    CASE l = "ok"    -> <<"o","k","\n">>
      [] l = "TOKEN" -> <<"e","c","h","o",":"," ","T","O","K","E","N","\r","\n">>
      [] l = "pos"   -> <<"X",":","1","0",".","5","0","0"," ","Y",":","2","0",".",
                          "0","0","0"," ","Z",":","-","5",".","2","5","0"," ","U",
                          ":","0",".","0","2","8"," ","V",":","-","1","1","0",".",
                          "0","0","0"," ","W",":","-","2","9","0",".","0","0","0",
                          "\n">>
      [] l = "blank" -> <<" ","\n">>
      [] l = "endstops" -> <<"E","n","d","s","t","o","p","s",":"," ","1","1","0",
                             "0","0","0","\n">>
      [] l = "start" -> <<"s","t","a","r","t","\n">>
      [] l = "marker" -> DISCONNECT_MARKER \o <<"\r","\n">>
      [] l = "SERIAL-DISCONNECTED" -> DISCONNECT_MARKER

\* serial_thread.py 165: data_bytes.decode(...).strip()
LineText(l) == strip(LineBytes(l))

\* serial_thread.py 180: "ok" in data.lower()
HasAck(l) == contains(lower(LineText(l)), <<"o","k">>)

RECURSIVE SumBytes(_)
SumBytes(q) == IF q = <<>> THEN 0 ELSE Len(LineBytes(Head(q))) + SumBytes(Tail(q))

Max(a, b) == IF a >= b THEN a ELSE b
Min(a, b) == IF a <= b THEN a ELSE b

\* Variant: the estimate has no upper limit.
estimated_lines_Unbounded(bytes_available) == Max(1, bytes_available \div 30)

\* serial_thread.py 157
estimated_lines(bytes_available) == Max(1, Min(10, bytes_available \div 30))

\* ------------------------------------------------------------------- state
ConnectionState == {"disconnected", "connecting", "connected", "error"}
LoopIds == 1..MaxLoops
WorkerIds == 1..MaxWorkers
Ports == {"COM3", ""}
Bauds == {"115200", "", "auto"}

\* The text of a baud-rate argument, as passed to int().
BaudText(b) ==
    CASE b = "115200" -> <<"1","1","5","2","0","0">>
      [] b = "auto"   -> <<"a","u","t","o">>
      [] b = ""       -> <<>>

VARIABLES
    isOpen,          \* SerialManager: the handle reports open
    linkDown,        \* the open handle has lost its device: every I/O call fails
    priority_lane,   \* command channel, lane drained first
    normal_lane,     \* command channel, normal lane
    rx,              \* lines pending in the handle's input buffer
    thread,          \* SerialThread instances, by creation order
    events,          \* serialSignal emissions not yet delivered to the router
    state,           \* ConnectionManager._state
    current_port,    \* ConnectionManager._current_port
    current_baudrate,\* ConnectionManager._current_baudrate
    serial_thread,   \* ConnectionManager._serial_thread (0: None)
    gui,             \* the controlling context: where it is inside disconnect()/connect()
    worker,          \* connect workers (threading.Thread running _connect_worker)
    notified,        \* the latest call that emitted ConnectionManager signals, and
                     \* the signals it emitted, in order
    is_homing,       \* homing flag of the external collaborator
    manual_command_age, \* SerialResponseRouter: time since _last_manual_command_time
    routed           \* history: the latest observed call of route_response, what it
                     \* was given, the callbacks it invoked, in order, and its result

vars == <<isOpen, linkDown, priority_lane, normal_lane, rx, thread, events, state,
          current_port, current_baudrate, serial_thread, gui, worker, notified,
          is_homing, manual_command_age, routed>>

serialVars == <<isOpen, linkDown, priority_lane, normal_lane, rx>>
managerVars ==
    <<state, current_port, current_baudrate, serial_thread, gui, worker, notified>>
routerVars == <<manual_command_age, routed>>

PauseCap == BLOCKING_COMMAND_MAX_PAUSE
StatusCap == SERIAL_STATUS_REQUEST_INTERVAL + 1
EndstopCap == SERIAL_ENDSTOP_REQUEST_INTERVAL + 1

\* A SerialThread that has not been constructed.
NoThread ==
    [pc |-> "none", alive |-> FALSE, running |-> FALSE,
     status_polling_paused |-> FALSE, time_paused |-> 0,
     since_status |-> 0, since_endstop |-> 0,
     bytes_available |-> 0, lines_left |-> 0,
     disconnects |-> 0,     \* history: Disconnect events this instance has emitted
     refreshes |-> -1]      \* history: out-of-band refreshes issued for the current
                            \* (or the last) pause episode; -1 before the first one

\* Variant: a new thread takes over the pause an earlier one was left in.
NewThread_KeepsPause ==
    [NoThread EXCEPT !.pc = "top", !.alive = TRUE, !.running = TRUE,
                     !.time_paused = PauseCap,
                     !.status_polling_paused =
                         \E j \in LoopIds : thread[j].status_polling_paused]

\* serial_thread.py 38-52, then QThread.start(): blocking_command_start_time is 0.0,
\* an instant far behind any current_time; both cadence timers start now.
NewThread ==
    [NoThread EXCEPT !.pc = "top", !.alive = TRUE, !.running = TRUE,
                     !.time_paused = PauseCap]

\* serial_response_router.py 90, in ticks.
MANUAL_COMMAND_DISPLAY_DURATION == 2
ManualCap == MANUAL_COMMAND_DISPLAY_DURATION

\* serial_response_router.py 32-38, with the callbacks the call invoked, in order.
RoutingResult(response_type, handled, show_in_console, calls) ==
    [response_type |-> response_type, handled |-> handled,
     show_in_console |-> show_in_console, calls |-> calls]

\* What one call of route_response was given (the line, the three flags, the homing
\* flag and the age of the last manual command it found) and its result.
Routing(data, verbose_show, ok_show, sync_pending, homing, age, result) ==
    [data |-> data, verbose_show |-> verbose_show, ok_show |-> ok_show,
     sync_pending |-> sync_pending, homing |-> homing, age |-> age,
     result |-> result]

\* No line has been routed yet.
NoRouting ==
    Routing("none", FALSE, FALSE, FALSE, FALSE, 0,
            RoutingResult("none", FALSE, FALSE, <<>>))

NoWorker == [pc |-> "none", port |-> "", baudrate |-> ""]
IdleGui == [pc |-> "idle", port |-> "", baudrate |-> "", then |-> "return"]

\* The signals of ConnectionManager (connection_manager.py 46-50).
StateChanged(s) == <<"state_changed", s>>
Connected(port, baudrate) == <<"connected", port, baudrate>>
Disconnected == <<"disconnected">>
Error == <<"error">>

Notice(call, port, baudrate, out) ==
    [call |-> call, port |-> port, baudrate |-> baudrate, out |-> out]

Init ==
    /\ isOpen = FALSE
    /\ linkDown = FALSE
    /\ priority_lane = <<>>
    /\ normal_lane = <<>>
    /\ rx = <<>>
    /\ thread = [i \in LoopIds |-> NoThread]
    /\ events = <<>>
    /\ state = "disconnected"
    /\ current_port = ""
    /\ current_baudrate = ""
    /\ serial_thread = 0
    /\ gui = IdleGui
    /\ worker = [w \in WorkerIds |-> NoWorker]
    /\ notified = Notice("none", "", "", <<>>)
    /\ is_homing = FALSE
    /\ manual_command_age = ManualCap
    /\ routed = NoRouting

\* --------------------------------------------------- SerialManager (modelled)
\* Every I/O call on the handle fails when it is closed or has lost its device.
IoFails == ~isOpen \/ linkDown

\* ------------------------------------------------------------ SerialThread
\* Distance of a stored instant behind current_time after the clock advanced by d.
Aged(t, d, cap) == Min(t + d, cap)

\* What one iteration works on: the thread's fields (t), both lanes and the
\* emitted lines.
Context(i) ==
    [t |-> thread[i], priority |-> priority_lane, normal |-> normal_lane,
     emitted |-> events]

\* serialSignal.emit("SERIAL-DISCONNECTED") (serial_thread.py 70, 103, 172)
EmitDisconnect(c) ==
    [c EXCEPT !.emitted = Append(@, "SERIAL-DISCONNECTED"),
              !.t.disconnects = Min(@ + 1, 3)]

\* Variant: the refresh is enqueued endstop request first.
request_immediate_status_Swapped(c) ==
    [c EXCEPT !.priority = @ \o <<"M119", "M114">>,
              !.t.refreshes = Min(@ + 1, 3)]

\* serial_thread.py 197-200
request_immediate_status(c) ==
    [c EXCEPT !.priority = @ \o <<"M114", "M119">>,
              !.t.refreshes = Min(@ + 1, 3)]

\* The thread object once run() has returned: its fields are never read again.
Exited(t) ==
    [t EXCEPT !.pc = "exited", !.alive = FALSE, !.time_paused = 0,
              !.since_status = 0, !.since_endstop = 0, !.bytes_available = 0,
              !.lines_left = 0]

\* Variant: the loop never tests its running flag.
LoopHead_IgnoresFlag(i, D) ==
    /\ thread[i].pc = "top"
    /\ IF ~isOpen
       THEN UNCHANGED <<thread, events>>
       ELSE IF IoFails
       THEN LET c == EmitDisconnect(Context(i))
            IN  /\ events' = c.emitted
                /\ thread' = [thread EXCEPT ![i] = Exited(c.t)]
       ELSE /\ \E d \in D :
                thread' = [thread EXCEPT
                   ![i].pc = "process",
                   ![i].bytes_available = SumBytes(rx),
                   ![i].time_paused = Aged(@, d, PauseCap),
                   ![i].since_status = Aged(@, d, StatusCap),
                   ![i].since_endstop = Aged(@, d, EndstopCap)]
            /\ UNCHANGED events
    /\ UNCHANGED <<serialVars, managerVars, is_homing, routerVars>>

\* serial_thread.py 60-74 and 95: the while test, the idle wait for an open handle,
\* the pending-byte probe and current_time = time.time(), which has advanced by
\* some d in D since the previous iteration read it.
LoopHead(i, D) ==
    /\ thread[i].pc = "top"
    /\ IF ~thread[i].running
       THEN /\ thread' = [thread EXCEPT ![i] = Exited(@)]
            /\ UNCHANGED events
       ELSE IF ~isOpen
       THEN UNCHANGED <<thread, events>>
       ELSE IF IoFails
       THEN LET c == EmitDisconnect(Context(i))
            IN  /\ events' = c.emitted
                /\ thread' = [thread EXCEPT ![i] = Exited(c.t)]
       ELSE /\ \E d \in D :
                thread' = [thread EXCEPT
                   ![i].pc = "process",
                   ![i].bytes_available = SumBytes(rx),
                   ![i].time_paused = Aged(@, d, PauseCap),
                   ![i].since_status = Aged(@, d, StatusCap),
                   ![i].since_endstop = Aged(@, d, EndstopCap)]
            /\ UNCHANGED events
    /\ UNCHANGED <<serialVars, managerVars, is_homing, routerVars>>

\* Variant: a failed write emits the Disconnect event and lets the loop run on.
process_command_queue_KeepsRunning(c) ==
    LET command == IF c.priority # <<>> THEN Head(c.priority)
                   ELSE IF c.normal # <<>> THEN Head(c.normal)
                   ELSE "none"
        taken == IF c.priority # <<>> THEN [c EXCEPT !.priority = Tail(@)]
                 ELSE IF c.normal # <<>> THEN [c EXCEPT !.normal = Tail(@)]
                 ELSE c
    IN  IF command = "none" THEN c
        ELSE IF IoFails THEN EmitDisconnect(taken)
        ELSE IF IsBlockingCommand(command)
        THEN [taken EXCEPT !.t.status_polling_paused = TRUE,
                           !.t.time_paused = 0,
                           !.t.refreshes = IF c.t.status_polling_paused THEN @ ELSE 0]
        ELSE taken

\* Variant: a blocking command written during a pause leaves the pause start alone.
process_command_queue_KeepsStart(c) ==
    LET command == IF c.priority # <<>> THEN Head(c.priority)
                   ELSE IF c.normal # <<>> THEN Head(c.normal)
                   ELSE "none"
        taken == IF c.priority # <<>> THEN [c EXCEPT !.priority = Tail(@)]
                 ELSE IF c.normal # <<>> THEN [c EXCEPT !.normal = Tail(@)]
                 ELSE c
        success == ~IoFails
    IN  IF command = "none" THEN c
        ELSE IF ~success
        THEN [EmitDisconnect(taken) EXCEPT !.t.running = FALSE]
        ELSE IF IsBlockingCommand(command)
        THEN [taken EXCEPT !.t.status_polling_paused = TRUE,
                           !.t.time_paused = IF c.t.status_polling_paused THEN @
                                             ELSE 0,
                           !.t.refreshes = IF c.t.status_polling_paused THEN @ ELSE 0]
        ELSE taken

\* Variant: only the priority lane is ever served.
process_command_queue_PriorityOnly(c) ==
    LET command == IF c.priority # <<>> THEN Head(c.priority) ELSE "none"
        taken == IF c.priority # <<>> THEN [c EXCEPT !.priority = Tail(@)] ELSE c
        success == ~IoFails
    IN  IF command = "none" THEN c
        ELSE IF ~success
        THEN [EmitDisconnect(taken) EXCEPT !.t.running = FALSE]
        ELSE IF IsBlockingCommand(command)
        THEN [taken EXCEPT !.t.status_polling_paused = TRUE,
                           !.t.time_paused = 0,
                           !.t.refreshes = IF c.t.status_polling_paused THEN @ ELSE 0]
        ELSE taken

\* Variant: the normal lane is served before the priority lane.
process_command_queue_NormalFirst(c) ==
    LET command == IF c.normal # <<>> THEN Head(c.normal)
                   ELSE IF c.priority # <<>> THEN Head(c.priority)
                   ELSE "none"
        taken == IF c.normal # <<>> THEN [c EXCEPT !.normal = Tail(@)]
                 ELSE IF c.priority # <<>> THEN [c EXCEPT !.priority = Tail(@)]
                 ELSE c
        success == ~IoFails
    IN  IF command = "none" THEN c
        ELSE IF ~success
        THEN [EmitDisconnect(taken) EXCEPT !.t.running = FALSE]
        ELSE IF IsBlockingCommand(command)
        THEN [taken EXCEPT !.t.status_polling_paused = TRUE,
                           !.t.time_paused = 0,
                           !.t.refreshes = IF c.t.status_polling_paused THEN @ ELSE 0]
        ELSE taken

\* serial_thread.py 97-114
process_command_queue(c) ==
    LET command == IF c.priority # <<>> THEN Head(c.priority)
                   ELSE IF c.normal # <<>> THEN Head(c.normal)
                   ELSE "none"
        taken == IF c.priority # <<>> THEN [c EXCEPT !.priority = Tail(@)]
                 ELSE IF c.normal # <<>> THEN [c EXCEPT !.normal = Tail(@)]
                 ELSE c
        success == ~IoFails
    IN  IF command = "none" THEN c
        ELSE IF ~success
        THEN [EmitDisconnect(taken) EXCEPT !.t.running = FALSE]
        ELSE IF IsBlockingCommand(command)
        THEN [taken EXCEPT !.t.status_polling_paused = TRUE,
                           !.t.time_paused = 0,
                           !.t.refreshes = IF c.t.status_polling_paused THEN @ ELSE 0]
        ELSE taken

\* Variant: no timeout, only an acknowledgment ends a pause.
check_polling_timeout_Never(c) == c

\* Variant: the timeout resumes the polling without the refresh.
check_polling_timeout_NoRefresh(c) ==
    IF /\ c.t.status_polling_paused
       /\ c.t.time_paused >= BLOCKING_COMMAND_MAX_PAUSE
    THEN [c EXCEPT !.t.status_polling_paused = FALSE]
    ELSE c

\* serial_thread.py 116-127
check_polling_timeout(c) ==
    IF /\ c.t.status_polling_paused
       /\ c.t.time_paused >= BLOCKING_COMMAND_MAX_PAUSE
    THEN request_immediate_status([c EXCEPT !.t.status_polling_paused = FALSE])
    ELSE c

\* Variant: the periodic requests are sent whether or not the polling is paused.
send_status_requests_Unpaused(c) ==
    LET position == c.t.since_status > SERIAL_STATUS_REQUEST_INTERVAL
        endstop == c.t.since_endstop > SERIAL_ENDSTOP_REQUEST_INTERVAL
    IN  [c EXCEPT
           !.t.since_status = IF position THEN 0 ELSE @,
           !.t.since_endstop = IF endstop THEN 0 ELSE @,
           !.priority = @ \o (IF position THEN <<"M114">> ELSE <<>>)
                          \o (IF endstop THEN <<"M119">> ELSE <<>>)]

\* Variant: one timer for both cadences, a request of either kind restarts both.
send_status_requests_SharedTimer(c) ==
    IF c.t.status_polling_paused THEN c
    ELSE LET position == c.t.since_status > SERIAL_STATUS_REQUEST_INTERVAL
             endstop == c.t.since_endstop > SERIAL_ENDSTOP_REQUEST_INTERVAL
         IN  [c EXCEPT
                !.t.since_status = IF position \/ endstop THEN 0 ELSE @,
                !.t.since_endstop = IF position \/ endstop THEN 0 ELSE @,
                !.priority = @ \o (IF position THEN <<"M114">> ELSE <<>>)
                               \o (IF endstop THEN <<"M119">> ELSE <<>>)]

\* serial_thread.py 129-148
send_status_requests(c) ==
    IF c.t.status_polling_paused THEN c
    ELSE LET position == c.t.since_status > SERIAL_STATUS_REQUEST_INTERVAL
             endstop == c.t.since_endstop > SERIAL_ENDSTOP_REQUEST_INTERVAL
         IN  [c EXCEPT
                !.t.since_status = IF position THEN 0 ELSE @,
                !.t.since_endstop = IF endstop THEN 0 ELSE @,
                !.priority = @ \o (IF position THEN <<"M114">> ELSE <<>>)
                               \o (IF endstop THEN <<"M119">> ELSE <<>>)]

\* serial_thread.py 152-157: the number of lines _read_serial_data may read.
read_budget(c) ==
    [c EXCEPT !.t.lines_left = IF c.t.bytes_available = 0 THEN 0
                               ELSE estimated_lines(c.t.bytes_available),
              !.t.bytes_available = 0,
              !.t.pc = "read"]

\* serial_thread.py 76-86: the command queue, the pause timeout and the periodic
\* status requests of one iteration, up to the entry of _read_serial_data.
LoopBody(i) ==
    /\ thread[i].pc = "process"
    /\ LET c == read_budget(send_status_requests(check_polling_timeout(
                    process_command_queue(Context(i)))))
       IN  /\ thread' = [thread EXCEPT ![i] = c.t]
           /\ priority_lane' = c.priority
           /\ normal_lane' = c.normal
           /\ events' = c.emitted
    /\ UNCHANGED <<isOpen, linkDown, rx, managerVars, is_homing, routerVars>>

\* Variant: any acknowledgment resumes the polling, however early.
check_blocking_command_complete_AnyAck(c, data) ==
    IF ~c.t.status_polling_paused THEN c
    ELSE IF ~HasAck(data) THEN c
    ELSE [c EXCEPT !.t.status_polling_paused = FALSE,
                   !.priority = @ \o <<"M114", "M119">>,
                   !.t.refreshes = Min(@ + 1, 3)]

\* serial_thread.py 175-195
check_blocking_command_complete(c, data) ==
    IF ~c.t.status_polling_paused THEN c
    ELSE IF ~HasAck(data) THEN c
    ELSE IF c.t.time_paused >= BLOCKING_COMMAND_MIN_PAUSE
    THEN request_immediate_status([c EXCEPT !.t.status_polling_paused = FALSE])
    ELSE c

\* serial_thread.py 163-168: one line read, emitted unless empty, and checked.
read_line(c, data) ==
    LET read == [c EXCEPT !.t.lines_left = @ - 1]
    IN  IF LineText(data) # <<>>
        THEN check_blocking_command_complete(
                 [read EXCEPT !.emitted = Append(@, data)], data)
        ELSE read

\* The end of the iteration (serial_thread.py 88-89).
EndIteration(c) == [c EXCEPT !.t.pc = "top", !.t.lines_left = 0]

\* serial_thread.py 159-173 and 88-89: one pass of the for loop of
\* _read_serial_data, or its end and the sleep that ends the iteration.
LoopRead(i) ==
    /\ thread[i].pc = "read"
    /\ LET c0 == Context(i)
           c == IF c0.t.lines_left = 0 THEN EndIteration(c0)
                ELSE IF IoFails
                THEN [EndIteration(EmitDisconnect(c0)) EXCEPT !.t.running = FALSE]
                ELSE IF rx = <<>> THEN EndIteration(c0)
                ELSE read_line(c0, Head(rx))
       IN  /\ thread' = [thread EXCEPT ![i] = c.t]
           /\ priority_lane' = c.priority
           /\ events' = c.emitted
           /\ rx' = IF c0.t.lines_left > 0 /\ ~IoFails /\ rx # <<>>
                    THEN Tail(rx) ELSE rx
    /\ UNCHANGED <<isOpen, linkDown, normal_lane, managerVars, is_homing, routerVars>>

\* ------------------------------------------------------- ConnectionManager
\* connection_manager.py 73-76
is_connected == state = "connected" /\ isOpen

\* QThread.isRunning() of ConnectionManager._serial_thread (lines 158-159, 193-194)
ThreadIsRunning == serial_thread # 0 /\ thread[serial_thread].alive

\* SerialThread.stop() on ConnectionManager._serial_thread (serial_thread.py 54-56)
stop(th) == [th EXCEPT ![serial_thread].running = FALSE]

FreeWorkers == {w \in WorkerIds : worker[w].pc = "none"}
FreeLoops == {i \in LoopIds : thread[i].pc = "none"}
BusyWorkers == {w \in WorkerIds : worker[w].pc # "none"}

\* connection_manager.py 144-152: state CONNECTING, then the worker thread is started.
StartWorker(port, baudrate) ==
    /\ state' = "connecting"
    /\ LET w == CHOOSE x \in FreeWorkers : \A y \in FreeWorkers : x <= y
       IN  worker' = [worker EXCEPT
               ![w] = [pc |-> "stop", port |-> port, baudrate |-> baudrate]]

\* Variant: the teardown leaves the handle as it is.
Teardown_KeepsHandle ==
    /\ UNCHANGED <<isOpen, linkDown, rx>>
    /\ serial_thread' = 0
    /\ current_port' = ""
    /\ current_baudrate' = ""

\* connection_manager.py 163-173: the teardown after the wait on the loop.
Teardown ==
    /\ isOpen' = FALSE
    /\ linkDown' = FALSE
    /\ rx' = <<>>
    /\ serial_thread' = 0
    /\ current_port' = ""
    /\ current_baudrate' = ""

\* Variant: a failed teardown emits disconnected() as well.
TeardownFailed_AlsoDisconnected == <<StateChanged("error"), Error, Disconnected>>

\* Variant: disconnected() is emitted before the state changes.
TornDown_EmitsFirst == <<Disconnected, StateChanged("disconnected")>>

\* What disconnect() emits: lines 169-170, and lines 177-179 when it has raised.
TornDown == <<StateChanged("disconnected"), Disconnected>>
TeardownFailed == <<StateChanged("error"), Error>>

\* Variant: connect() does not look at its arguments.
connect_Unchecked(port, baudrate) ==
    /\ gui.pc = "idle"
    /\ FreeWorkers # {}
    /\ Cardinality(FreeLoops) > Cardinality(BusyWorkers)
    /\ StartWorker(port, baudrate)
    /\ notified' = Notice("connect", port, baudrate, <<StateChanged("connecting")>>)
    /\ UNCHANGED <<serialVars, thread, events, current_port,
                   current_baudrate, serial_thread, gui, is_homing, routerVars>>

\* connection_manager.py 119-152.  A worker slot and a loop instance must be left
\* for the attempt (bounds of the model).  disconnect(), called at line 141, may
\* raise at the stop of the loop or at the close of the handle; it catches the
\* exception and connect() goes on at line 144.
connect(port, baudrate) ==
    /\ gui.pc = "idle"
    /\ FreeWorkers # {}
    /\ Cardinality(FreeLoops) > Cardinality(BusyWorkers)
    /\ IF port = "" \/ baudrate = ""
       THEN /\ notified' = Notice("connect", port, baudrate, <<Error>>)
            /\ UNCHANGED <<serialVars, thread, events, state, current_port,
                           current_baudrate, serial_thread, gui, worker, is_homing, routerVars>>
       ELSE IF is_connected
       THEN \E raises \in BOOLEAN :
            IF raises
            THEN /\ StartWorker(port, baudrate)
                 /\ notified' = Notice("connect", port, baudrate,
                        TeardownFailed \o <<StateChanged("connecting")>>)
                 /\ UNCHANGED <<serialVars, thread, events, current_port,
                                current_baudrate, serial_thread, gui, is_homing, routerVars>>
            ELSE IF ThreadIsRunning
            THEN /\ thread' = stop(thread)
                 /\ gui' = [pc |-> "disc_wait", port |-> port,
                            baudrate |-> baudrate, then |-> "connect"]
                 /\ notified' = Notice("connect", port, baudrate, <<>>)
                 /\ UNCHANGED <<serialVars, events, state, current_port,
                                current_baudrate, serial_thread, worker, is_homing, routerVars>>
            ELSE /\ Teardown
                 /\ StartWorker(port, baudrate)
                 /\ notified' = Notice("connect", port, baudrate,
                        TornDown \o <<StateChanged("connecting")>>)
                 /\ UNCHANGED <<priority_lane, normal_lane, thread, events, gui,
                                is_homing, routerVars>>
       ELSE /\ StartWorker(port, baudrate)
            /\ notified' = Notice("connect", port, baudrate,
                                  <<StateChanged("connecting")>>)
            /\ UNCHANGED <<serialVars, thread, events, current_port,
                           current_baudrate, serial_thread, gui, is_homing, routerVars>>

\* connection_manager.py 154-161 and 177-179: disconnect() up to the wait on the
\* loop, and the whole of it when no loop is running.
disconnect ==
    /\ gui.pc = "idle"
    /\ \E raises \in BOOLEAN :
        IF raises
        THEN /\ state' = "error"
             /\ notified' = Notice("disconnect", "", "", TeardownFailed)
             /\ UNCHANGED <<serialVars, thread, events, current_port,
                            current_baudrate, serial_thread, gui, worker, is_homing, routerVars>>
        ELSE IF ThreadIsRunning
        THEN /\ thread' = stop(thread)
             /\ gui' = [IdleGui EXCEPT !.pc = "disc_wait"]
             /\ notified' = Notice("disconnect", "", "", <<>>)
             /\ UNCHANGED <<serialVars, events, state, current_port,
                            current_baudrate, serial_thread, worker, is_homing, routerVars>>
        ELSE /\ Teardown
             /\ state' = "disconnected"
             /\ notified' = Notice("disconnect", "", "", TornDown)
             /\ UNCHANGED <<priority_lane, normal_lane, thread, events, gui, worker,
                            is_homing, routerVars>>

\* Variant: disconnect() joins the loop without a timeout.
disconnect_finish_Joins ==
    /\ gui.pc = "disc_wait"
    /\ ~ThreadIsRunning
    /\ gui' = IdleGui
    /\ LET call == IF gui.then = "connect" THEN "connect" ELSE "disconnect"
           after == IF gui.then = "connect"
                    THEN <<StateChanged("connecting")>> ELSE <<>>
       IN  \E raises \in BOOLEAN :
            /\ IF raises
               THEN UNCHANGED <<isOpen, linkDown, rx, serial_thread, current_port,
                                current_baudrate>>
               ELSE Teardown
            /\ notified' = Notice(call, gui.port, gui.baudrate,
                   (IF raises THEN TeardownFailed ELSE TornDown) \o after)
            /\ IF gui.then = "connect"
               THEN StartWorker(gui.port, gui.baudrate)
               ELSE /\ state' = IF raises THEN "error" ELSE "disconnected"
                    /\ UNCHANGED worker
    /\ UNCHANGED <<priority_lane, normal_lane, thread, events, is_homing, routerVars>>

\* connection_manager.py 161-173 and 177-179: wait() returns, because the loop has
\* exited or because SERIAL_THREAD_SHUTDOWN_TIMEOUT has passed, and the teardown
\* follows, unless close() raises; a disconnect() called by connect() then returns
\* to line 144.
disconnect_finish ==
    /\ gui.pc = "disc_wait"
    /\ gui' = IdleGui
    /\ LET call == IF gui.then = "connect" THEN "connect" ELSE "disconnect"
           after == IF gui.then = "connect"
                    THEN <<StateChanged("connecting")>> ELSE <<>>
       IN  \E raises \in BOOLEAN :
            /\ IF raises
               THEN UNCHANGED <<isOpen, linkDown, rx, serial_thread, current_port,
                                current_baudrate>>
               ELSE Teardown
            /\ notified' = Notice(call, gui.port, gui.baudrate,
                   (IF raises THEN TeardownFailed ELSE TornDown) \o after)
            /\ IF gui.then = "connect"
               THEN StartWorker(gui.port, gui.baudrate)
               ELSE /\ state' = IF raises THEN "error" ELSE "disconnected"
                    /\ UNCHANGED worker
    /\ UNCHANGED <<priority_lane, normal_lane, thread, events, is_homing, routerVars>>

\* Variant: the handler emits error(message) and leaves the state as it is.
WorkerFails_KeepsState(w) ==
    /\ state' = state
    /\ worker' = [worker EXCEPT ![w] = NoWorker]
    /\ notified' = Notice("worker", worker[w].port, worker[w].baudrate, <<Error>>)

\* connection_manager.py 228-231: the worker's exception handler.
WorkerFails(w) ==
    /\ state' = "error"
    /\ worker' = [worker EXCEPT ![w] = NoWorker]
    /\ notified' = Notice("worker", worker[w].port, worker[w].baudrate,
                          <<StateChanged("error"), Error>>)

\* connection_manager.py 192-196: stop the existing loop and start waiting for it.
worker_stop(w) ==
    /\ worker[w].pc = "stop"
    /\ \E raises \in BOOLEAN :
        IF raises
        THEN WorkerFails(w) /\ UNCHANGED thread
        ELSE /\ IF ThreadIsRunning
                THEN /\ thread' = stop(thread)
                     /\ worker' = [worker EXCEPT ![w].pc = "wait"]
                ELSE /\ worker' = [worker EXCEPT ![w].pc = "close"]
                     /\ UNCHANGED thread
             /\ UNCHANGED <<state, notified>>
    /\ UNCHANGED <<serialVars, events, current_port, current_baudrate,
                   serial_thread, gui, is_homing, routerVars>>

\* Variant: the worker joins the loop without a timeout.
worker_wait_Joins(w) ==
    /\ worker[w].pc = "wait"
    /\ ~ThreadIsRunning
    /\ worker' = [worker EXCEPT ![w].pc = "close"]
    /\ UNCHANGED <<serialVars, thread, events, state, current_port,
                   current_baudrate, serial_thread, gui, notified, is_homing, routerVars>>

\* connection_manager.py 196: wait(2000) returns (loop exited, or 2 s passed).
worker_wait(w) ==
    /\ worker[w].pc = "wait"
    /\ worker' = [worker EXCEPT ![w].pc = "close"]
    /\ UNCHANGED <<serialVars, thread, events, state, current_port,
                   current_baudrate, serial_thread, gui, notified, is_homing, routerVars>>

Digits == {"0","1","2","3","4","5","6","7","8","9"}

\* int(baudrate) at connection_manager.py 203 raises ValueError unless the text,
\* stripped, is an optional sign followed by digits.
int_raises(text) ==
    LET t == strip(text)
        digits == IF t # <<>> /\ t[1] \in {"+", "-"} THEN Tail(t) ELSE t
    IN  \/ digits = <<>>
        \/ \E k \in 1..Len(digits) : digits[k] \notin Digits

\* connection_manager.py 198-204: close the existing connection, configure the port.
worker_close(w) ==
    /\ worker[w].pc = "close"
    /\ \E raises \in BOOLEAN :
        IF raises
        THEN /\ WorkerFails(w)
             /\ UNCHANGED <<isOpen, linkDown, rx>>
        ELSE /\ isOpen' = FALSE
             /\ linkDown' = FALSE
             /\ rx' = <<>>
             /\ IF int_raises(BaudText(worker[w].baudrate))
                THEN WorkerFails(w)
                ELSE /\ worker' = [worker EXCEPT ![w].pc = "open"]
                     /\ UNCHANGED <<state, notified>>
    /\ UNCHANGED <<priority_lane, normal_lane, thread, events, current_port,
                   current_baudrate, serial_thread, gui, is_homing, routerVars>>

\* connection_manager.py 206-210: open() and reset_input_buffer(); open() raises
\* when the port cannot be opened, and when the handle is open already.
worker_open(w) ==
    /\ worker[w].pc = "open"
    /\ \E opens \in BOOLEAN :
        IF opens /\ ~isOpen
        THEN /\ isOpen' = TRUE
             /\ linkDown' = FALSE
             /\ rx' = <<>>
             /\ worker' = [worker EXCEPT ![w].pc = "start"]
             /\ UNCHANGED <<state, notified>>
        ELSE /\ WorkerFails(w)
             /\ UNCHANGED <<isOpen, linkDown, rx>>
    /\ UNCHANGED <<priority_lane, normal_lane, thread, events, current_port,
                   current_baudrate, serial_thread, gui, is_homing, routerVars>>

\* connection_manager.py 213-216: the new SerialThread is constructed and started,
\* unless its construction raises.
worker_start(w) ==
    /\ worker[w].pc = "start"
    /\ FreeLoops # {}
    /\ \E raises \in BOOLEAN :
        IF raises
        THEN WorkerFails(w) /\ UNCHANGED <<thread, serial_thread>>
        ELSE /\ LET i == CHOOSE x \in FreeLoops : \A y \in FreeLoops : x <= y
                IN  /\ thread' = [thread EXCEPT ![i] = NewThread]
                    /\ serial_thread' = i
             /\ worker' = [worker EXCEPT ![w].pc = "finish"]
             /\ UNCHANGED <<state, notified>>
    /\ UNCHANGED <<serialVars, events, current_port, current_baudrate, gui,
                   is_homing, routerVars>>

\* Variant: connected() is emitted before the state changes.
worker_finish_EmitsFirst(w) ==
    /\ worker[w].pc = "finish"
    /\ current_port' = worker[w].port
    /\ current_baudrate' = worker[w].baudrate
    /\ state' = "connected"
    /\ worker' = [worker EXCEPT ![w] = NoWorker]
    /\ notified' = Notice("worker", worker[w].port, worker[w].baudrate,
           <<Connected(worker[w].port, worker[w].baudrate), StateChanged("connected")>>)
    /\ UNCHANGED <<serialVars, thread, events, serial_thread, gui, is_homing, routerVars>>

\* connection_manager.py 218-226: store the connection info, state CONNECTED.
worker_finish(w) ==
    /\ worker[w].pc = "finish"
    /\ current_port' = worker[w].port
    /\ current_baudrate' = worker[w].baudrate
    /\ state' = "connected"
    /\ worker' = [worker EXCEPT ![w] = NoWorker]
    /\ notified' = Notice("worker", worker[w].port, worker[w].baudrate,
           <<StateChanged("connected"), Connected(worker[w].port, worker[w].baudrate)>>)
    /\ UNCHANGED <<serialVars, thread, events, serial_thread, gui, is_homing, routerVars>>

\* connection_manager.py 238-243: the priority lane after request_position_update().
position_update(lane) == IF isOpen THEN lane \o <<"M114", "M119">> ELSE lane

\* connection_manager.py 238-243, called by the controlling context (manual refresh).
request_position_update ==
    /\ gui.pc = "idle"
    /\ Len(priority_lane) < MaxPriority
    /\ priority_lane' = position_update(priority_lane)
    /\ UNCHANGED <<isOpen, linkDown, normal_lane, rx, thread, events, managerVars,
                   is_homing, routerVars>>

\* --------------------------------------------------- producers and the device
\* command_builder.py 142-150: a producer queues a command on the normal lane.
send_command(c) ==
    /\ gui.pc = "idle"
    /\ isOpen
    /\ Len(normal_lane) < MaxNormal
    /\ normal_lane' = Append(normal_lane, c)
    /\ UNCHANGED <<isOpen, linkDown, priority_lane, rx, thread, events, managerVars,
                   is_homing, routerVars>>

\* The external collaborator raises its homing flag.
start_homing ==
    /\ ~is_homing
    /\ is_homing' = TRUE
    /\ UNCHANGED <<serialVars, thread, events, managerVars, routerVars>>

\* The device sends a line.
DeviceSend(l) ==
    /\ isOpen /\ ~linkDown
    /\ Len(rx) + Len(events) < MaxPending
    /\ rx' = Append(rx, l)
    /\ UNCHANGED <<isOpen, linkDown, priority_lane, normal_lane, thread, events,
                   managerVars, is_homing, routerVars>>

\* The device sends a line of a burst, however many lines are already pending.
DeviceBurst(l) ==
    /\ isOpen /\ ~linkDown
    /\ Len(rx) + Len(events) < MaxBacklog
    /\ rx' = Append(rx, l)
    /\ UNCHANGED <<isOpen, linkDown, priority_lane, normal_lane, thread, events,
                   managerVars, is_homing, routerVars>>

\* The device is lost while the handle is open.
Unplug ==
    /\ isOpen /\ ~linkDown
    /\ linkDown' = TRUE
    /\ UNCHANGED <<isOpen, priority_lane, normal_lane, rx, thread, events,
                   managerVars, is_homing, routerVars>>

\* ------------------------------------------------------ SerialResponseRouter
\* parsing_patterns.is_m114_response: the position-report shape.
is_m114_response(data) == contains(data, <<"X",":">>) /\ contains(data, <<"Y",":">>)

\* parsing_patterns.is_m119_response: the endstop-report shape.
is_m119_response(data) == contains(data, <<"E","n","d","s","t","o","p","s">>)

\* parsing_patterns.is_ok_response: case-insensitive match of the acknowledgment.
is_ok_response(data) == contains(lower(data), <<"o","k">>)

\* serial_response_router.py 92-114
identify_response_type(data) ==
    IF data = DISCONNECT_MARKER THEN "DISCONNECT"
    ELSE IF is_m114_response(data) THEN "POSITION"
    ELSE IF is_m119_response(data) THEN "ENDSTOP"
    ELSE IF is_ok_response(data) THEN "OK"
    ELSE "OTHER"

\* serial_response_router.py 223-240: the callbacks of a homing completion.
check_homing_completion ==
    IF is_homing
    THEN <<"set_homing_complete", "request_position_update", "set_sync_pending">>
    ELSE <<>>

\* serial_response_router.py 179-189
handle_disconnect ==
    RoutingResult("DISCONNECT", TRUE, FALSE, <<"disconnect_handler">>)

\* serial_response_router.py 191-200
handle_endstop(calls) ==
    RoutingResult("ENDSTOP", TRUE, FALSE, Append(calls, "endstop_handler"))

\* Variant: sync-trigger is invoked whether or not a sync is pending.
handle_position_AlwaysSyncs(calls, verbose_show, sync_pending) ==
    RoutingResult("POSITION", TRUE, verbose_show,
                  calls \o <<"position_handler", "trigger_sync">>)

\* serial_response_router.py 202-221
handle_position(calls, verbose_show, sync_pending) ==
    RoutingResult("POSITION", TRUE, verbose_show,
                  calls \o <<"position_handler">>
                        \o (IF sync_pending THEN <<"trigger_sync">> ELSE <<>>))

\* Variant: the manual-echo window is tested before the Disconnect line.
route_WindowFirst(data, verbose_show, ok_show, sync_pending) ==
    LET response_type == identify_response_type(data)
        calls == IF response_type = "OK" THEN check_homing_completion ELSE <<>>
    IN  IF manual_command_age < MANUAL_COMMAND_DISPLAY_DURATION
        THEN RoutingResult(response_type, FALSE, TRUE, calls)
        ELSE IF response_type = "DISCONNECT" THEN handle_disconnect
        ELSE IF response_type = "ENDSTOP" THEN handle_endstop(calls)
        ELSE IF response_type = "POSITION"
        THEN handle_position(calls, verbose_show, sync_pending)
        ELSE IF response_type = "OK"
        THEN RoutingResult("OK", TRUE, ok_show, calls)
        ELSE RoutingResult("OTHER", FALSE, TRUE, calls)

\* Variant: inside the manual-echo window the homing completion is skipped.
route_NoCompletionInWindow(data, verbose_show, ok_show, sync_pending) ==
    LET response_type == identify_response_type(data)
        calls == IF response_type = "OK" THEN check_homing_completion ELSE <<>>
    IN  IF response_type = "DISCONNECT" THEN handle_disconnect
        ELSE IF manual_command_age < MANUAL_COMMAND_DISPLAY_DURATION
        THEN RoutingResult(response_type, FALSE, TRUE, <<>>)
        ELSE IF response_type = "ENDSTOP" THEN handle_endstop(calls)
        ELSE IF response_type = "POSITION"
        THEN handle_position(calls, verbose_show, sync_pending)
        ELSE IF response_type = "OK"
        THEN RoutingResult("OK", TRUE, ok_show, calls)
        ELSE RoutingResult("OTHER", FALSE, TRUE, calls)

\* Variant: an endstop report is handled before the manual-echo window is tested.
route_EndstopBeforeWindow(data, verbose_show, ok_show, sync_pending) ==
    LET response_type == identify_response_type(data)
        calls == IF response_type = "OK" THEN check_homing_completion ELSE <<>>
    IN  IF response_type = "DISCONNECT" THEN handle_disconnect
        ELSE IF response_type = "ENDSTOP" THEN handle_endstop(calls)
        ELSE IF manual_command_age < MANUAL_COMMAND_DISPLAY_DURATION
        THEN RoutingResult(response_type, FALSE, TRUE, calls)
        ELSE IF response_type = "POSITION"
        THEN handle_position(calls, verbose_show, sync_pending)
        ELSE IF response_type = "OK"
        THEN RoutingResult("OK", TRUE, ok_show, calls)
        ELSE RoutingResult("OTHER", FALSE, TRUE, calls)

\* Variant: an acknowledgment is shown under the verbose flag.
route_OkShowsVerbose(data, verbose_show, ok_show, sync_pending) ==
    LET response_type == identify_response_type(data)
        calls == IF response_type = "OK" THEN check_homing_completion ELSE <<>>
    IN  IF response_type = "DISCONNECT" THEN handle_disconnect
        ELSE IF manual_command_age < MANUAL_COMMAND_DISPLAY_DURATION
        THEN RoutingResult(response_type, FALSE, TRUE, calls)
        ELSE IF response_type = "ENDSTOP" THEN handle_endstop(calls)
        ELSE IF response_type = "POSITION"
        THEN handle_position(calls, verbose_show, sync_pending)
        ELSE IF response_type = "OK"
        THEN RoutingResult("OK", TRUE, verbose_show, calls)
        ELSE RoutingResult("OTHER", FALSE, TRUE, calls)

\* Variant: the manual-echo window includes its end.
route_WindowInclusive(data, verbose_show, ok_show, sync_pending) ==
    LET response_type == identify_response_type(data)
        calls == IF response_type = "OK" THEN check_homing_completion ELSE <<>>
    IN  IF response_type = "DISCONNECT" THEN handle_disconnect
        ELSE IF manual_command_age <= MANUAL_COMMAND_DISPLAY_DURATION
        THEN RoutingResult(response_type, FALSE, TRUE, calls)
        ELSE IF response_type = "ENDSTOP" THEN handle_endstop(calls)
        ELSE IF response_type = "POSITION"
        THEN handle_position(calls, verbose_show, sync_pending)
        ELSE IF response_type = "OK"
        THEN RoutingResult("OK", TRUE, ok_show, calls)
        ELSE RoutingResult("OTHER", FALSE, TRUE, calls)

\* serial_response_router.py 116-173, every handler being registered: the result
\* of routing one line, and the callbacks invoked on the way.
route(data, verbose_show, ok_show, sync_pending) ==
    LET response_type == identify_response_type(data)
        calls == IF response_type = "OK" THEN check_homing_completion ELSE <<>>
    IN  IF response_type = "DISCONNECT" THEN handle_disconnect
        ELSE IF manual_command_age < MANUAL_COMMAND_DISPLAY_DURATION
        THEN RoutingResult(response_type, FALSE, TRUE, calls)
        ELSE IF response_type = "ENDSTOP" THEN handle_endstop(calls)
        ELSE IF response_type = "POSITION"
        THEN handle_position(calls, verbose_show, sync_pending)
        ELSE IF response_type = "OK"
        THEN RoutingResult("OK", TRUE, ok_show, calls)
        ELSE RoutingResult("OTHER", FALSE, TRUE, calls)

Invoked(calls) == {calls[k] : k \in 1..Len(calls)}

\* The slot connected to serialSignal routes the oldest emitted line with the given
\* flags.  Of the callbacks, set_homing_complete clears the collaborator's homing
\* flag and request_position_update is ConnectionManager.request_position_update;
\* the others act on the display only.
Routes(verbose_show, ok_show, sync_pending) ==
    /\ gui.pc = "idle"
    /\ events # <<>>
    /\ LET result == route(LineText(Head(events)), verbose_show, ok_show,
                           sync_pending)
           called == Invoked(result.calls)
       IN  /\ "request_position_update" \in called => Len(priority_lane) < MaxPriority
           /\ events' = Tail(events)
           /\ is_homing' = IF "set_homing_complete" \in called THEN FALSE
                           ELSE is_homing
           /\ priority_lane' = IF "request_position_update" \in called
                               THEN position_update(priority_lane)
                               ELSE priority_lane
    /\ UNCHANGED <<isOpen, linkDown, normal_lane, rx, thread, managerVars,
                   manual_command_age>>

\* Variant: routing the Disconnect line puts the manager in state Disconnected.
route_response_Disconnects ==
    /\ gui.pc = "idle"
    /\ events # <<>>
    /\ LET result == route(LineText(Head(events)), FALSE, FALSE, FALSE)
           called == Invoked(result.calls)
       IN  /\ "request_position_update" \in called => Len(priority_lane) < MaxPriority
           /\ events' = Tail(events)
           /\ is_homing' = IF "set_homing_complete" \in called THEN FALSE
                           ELSE is_homing
           /\ priority_lane' = IF "request_position_update" \in called
                               THEN position_update(priority_lane)
                               ELSE priority_lane
           /\ state' = IF "disconnect_handler" \in called THEN "disconnected"
                       ELSE state
    /\ UNCHANGED <<isOpen, linkDown, normal_lane, rx, thread, current_port,
                   current_baudrate, serial_thread, gui, worker, notified,
                   routerVars>>

\* The slot inside the running system, called with the default flags of
\* route_response (lines 119-121); what it returns is displayed and dropped.
route_response ==
    /\ Routes(FALSE, FALSE, FALSE)
    /\ UNCHANGED routed

\* The slot under observation: the call, its callbacks and its result are kept.
RouteWith(verbose_show, ok_show, sync_pending) ==
    /\ Routes(verbose_show, ok_show, sync_pending)
    /\ routed' = Routing(Head(events), verbose_show, ok_show, sync_pending,
                         is_homing, manual_command_age,
                         route(LineText(Head(events)), verbose_show, ok_show,
                               sync_pending))

\* serial_response_router.py 175-177
mark_manual_command_sent ==
    /\ manual_command_age' = 0
    /\ UNCHANGED <<serialVars, thread, events, managerVars, is_homing, routed>>

\* time.time() of line 146 has advanced by d since the router last read it.
Elapse(d) ==
    /\ manual_command_age < ManualCap
    /\ manual_command_age' = Aged(manual_command_age, d, ManualCap)
    /\ UNCHANGED <<serialVars, thread, events, managerVars, is_homing, routed>>

\* serialSignal.emit(data): a loop hands a line to the router.
EmitLine(l) ==
    /\ Len(events) < MaxPending
    /\ events' = Append(events, l)
    /\ UNCHANGED <<serialVars, thread, managerVars, is_homing, routerVars>>

\* ------------------------------------------------------------ specification
Ticks == 0..MaxDelta
Advancing == 1..MaxDelta

\* Spec: one session.  The controlling context connects once; the I/O loop of
\* that session runs against the clock, the device, the producers and the router.
FirstSession == FreeLoops = LoopIds /\ BusyWorkers = {}

LoopStep(i) ==
    \/ LoopHead(i, Ticks)
    \/ LoopBody(i)
    \/ LoopRead(i)

WorkerStep(w) ==
    \/ worker_stop(w)
    \/ worker_wait(w)
    \/ worker_close(w)
    \/ worker_open(w)
    \/ worker_start(w)
    \/ worker_finish(w)

\* The worker of a first session finds no loop to wait for.
SessionWorkerStep(w) ==
    \/ worker_stop(w)
    \/ worker_close(w)
    \/ worker_open(w)
    \/ worker_start(w)
    \/ worker_finish(w)

Next ==
    \/ \E i \in LoopIds : LoopStep(i)
    \/ \E w \in WorkerIds : SessionWorkerStep(w)
    \/ \E port \in Ports, baudrate \in Bauds : FirstSession /\ connect(port, baudrate)
    \/ disconnect
    \/ disconnect_finish
    \/ \E c \in UserCommands : send_command(c)
    \/ \E l \in DeviceLines : DeviceSend(l)
    \/ Unplug
    \/ route_response

Spec == Init /\ [][Next]_vars

\* RefreshSpec: one session, with the refreshes requested from outside the loop:
\* the manual refresh of the controlling context, and the refresh the router
\* requests when an acknowledgment arrives while the collaborator is homing.
RefreshCommands == {"G28", "G1"}
RefreshLines == {"ok"}

RefreshNext ==
    \/ \E i \in LoopIds : LoopStep(i)
    \/ \E w \in WorkerIds : SessionWorkerStep(w)
    \/ \E port \in Ports, baudrate \in Bauds : FirstSession /\ connect(port, baudrate)
    \/ disconnect
    \/ disconnect_finish
    \/ request_position_update
    \/ \E c \in RefreshCommands : send_command(c)
    \/ start_homing
    \/ \E l \in RefreshLines : DeviceSend(l)
    \/ Unplug
    \/ route_response

RefreshSpec == Init /\ [][RefreshNext]_vars

\* SystemSpec: every session.  connect() and disconnect() are called at any time,
\* connect workers and successive I/O loops run side by side; the loops iterate
\* within one tick of the clock.
SystemCommands == {"G28"}
SystemLines == {"ok"}

SystemLoopStep(i) ==
    \/ LoopHead(i, {0})
    \/ LoopBody(i)
    \/ LoopRead(i)

SystemNext ==
    \/ \E i \in LoopIds : SystemLoopStep(i)
    \/ \E w \in WorkerIds : WorkerStep(w)
    \/ \E port \in Ports, baudrate \in Bauds : connect(port, baudrate)
    \/ disconnect
    \/ disconnect_finish
    \/ \E c \in SystemCommands : send_command(c)
    \/ \E l \in SystemLines : DeviceSend(l)
    \/ Unplug
    \/ route_response

SystemSpec == Init /\ [][SystemNext]_vars

\* ReadSpec: one session in which the device sends bursts of lines of 17 bytes, so
\* that the pending bytes range from none to more than 330; the clock is frozen:
\* the loop only reads.
ReadLines == {"endstops"}

ReadNext ==
    \/ \E i \in LoopIds : SystemLoopStep(i)
    \/ \E w \in WorkerIds : SessionWorkerStep(w)
    \/ \E port \in Ports, baudrate \in Bauds : FirstSession /\ connect(port, baudrate)
    \/ \E l \in ReadLines : DeviceBurst(l)
    \/ Unplug
    \/ route_response

ReadSpec == Init /\ [][ReadNext]_vars

\* MarkerSpec: one session in which the device may send, besides acknowledgments,
\* a line whose text is that of the disconnect marker; the clock is frozen.
MarkerLines == {"ok", "marker"}

MarkerNext ==
    \/ \E i \in LoopIds : SystemLoopStep(i)
    \/ \E w \in WorkerIds : SessionWorkerStep(w)
    \/ \E port \in Ports, baudrate \in Bauds : FirstSession /\ connect(port, baudrate)
    \/ \E l \in MarkerLines : DeviceSend(l)
    \/ Unplug
    \/ route_response

MarkerSpec == Init /\ [][MarkerNext]_vars

\* WriteSpec: one session in which a motion command waits on the normal lane while
\* the loop polls, the controlling context refreshes by hand and the device keeps
\* sending lines; the loops are scheduled as in LiveSpec.  The lane is first in,
\* first out and only its head is ever taken: the producer queues its next command
\* once the one before has been taken, so that the waiting command is the head.
WriteCommands == {"G1"}
WriteLines == {"ok"}

WriteNext ==
    \/ \E i \in LoopIds : LoopStep(i)
    \/ \E w \in WorkerIds : SessionWorkerStep(w)
    \/ \E port \in Ports, baudrate \in Bauds : FirstSession /\ connect(port, baudrate)
    \/ request_position_update
    \/ \E c \in WriteCommands : normal_lane = <<>> /\ send_command(c)
    \/ \E l \in WriteLines : DeviceSend(l)
    \/ Unplug
    \/ route_response

WriteSpec ==
    /\ Init /\ [][WriteNext]_vars
    /\ \A i \in LoopIds :
          /\ WF_vars(LoopHead(i, Ticks))
          /\ []<>(thread[i].pc \notin {"process", "read"})

\* RouterSpec: the router alone.  Lines of every classification are emitted to it,
\* routed with every combination of the flags, at every age of the last manual
\* command, with the homing flag raised or not.
RouterLines == {"ok", "TOKEN", "pos", "endstops", "start", "SERIAL-DISCONNECTED"}

RouterNext ==
    \/ \E l \in RouterLines : EmitLine(l)
    \/ \E verbose_show, ok_show, sync_pending \in BOOLEAN :
          RouteWith(verbose_show, ok_show, sync_pending)
    \/ mark_manual_command_sent
    \/ \E d \in Advancing : Elapse(d)
    \/ start_homing

RouterSpec == Init /\ [][RouterNext]_vars

\* ------------------------------------------------------------------ claims
\* Helpers of the properties.
IsLoopBody(i) == thread[i].pc = "process" /\ thread'[i].pc = "read"

\* The for loop of _read_serial_data reads one line in this step.
IsLineRead(i) ==
    /\ thread[i].pc = "read" /\ thread'[i].pc = "read"
    /\ thread'[i].lines_left = thread[i].lines_left - 1

\* What the iteration dequeues: the head of the priority lane, else of the normal lane.
Dequeued ==
    IF priority_lane # <<>> THEN Head(priority_lane)
    ELSE IF normal_lane # <<>> THEN Head(normal_lane)
    ELSE "none"

PriorityAfterDequeue ==
    IF priority_lane # <<>> THEN Tail(priority_lane) ELSE priority_lane

\* The command's stripped, uppercased text starts with G28, G29 or M999.
StartsWithBlockingPrefix(c) ==
    LET text == upper(strip(CommandBytes(c)))
    IN  \/ startswith(text, <<"G","2","8">>)
        \/ startswith(text, <<"G","2","9">>)
        \/ startswith(text, <<"M","9","9","9">>)

\* The step writes a blocking command to the device.
WritesBlocking(i) ==
    /\ IsLoopBody(i)
    /\ Dequeued # "none"
    /\ ~IoFails
    /\ StartsWithBlockingPrefix(Dequeued)

\* The line, stripped, case-insensitively contains the acknowledgment token.
ContainsAck(l) == contains(lower(strip(LineBytes(l))), <<"o","k">>)

Refresh == <<"M114", "M119">>

\* C1: after the loop has written a command whose stripped, uppercased text starts
\* with G28, G29 or M999, its polling is paused and the pause started at the
\* current_time of the iteration that wrote it.
C1_PausedAfterBlockingWrite ==
    [][\A i \in LoopIds :
         WritesBlocking(i) =>
             /\ thread'[i].status_polling_paused
             /\ thread'[i].time_paused = 0]_vars

\* A loop in the iteration that has written a blocking command: paused, pause age 0.
C1_Witness ==
    \E i \in LoopIds :
        /\ thread[i].pc = "read"
        /\ thread[i].running
        /\ thread[i].status_polling_paused
        /\ thread[i].time_paused = 0

\* C2: polling goes from active to paused only in an iteration that wrote a blocking
\* command, and from paused to active only on a line containing the acknowledgment
\* with MIN_PAUSE elapsed, or with MAX_PAUSE elapsed; no other step changes it.
C2_PollingTransitions ==
    [][\A i \in LoopIds :
         /\ (~thread[i].status_polling_paused /\ thread'[i].status_polling_paused)
                => WritesBlocking(i)
         /\ (thread[i].status_polling_paused /\ ~thread'[i].status_polling_paused)
                => \/ /\ IsLineRead(i)
                      /\ rx # <<>>
                      /\ ContainsAck(Head(rx))
                      /\ thread[i].time_paused >= BLOCKING_COMMAND_MIN_PAUSE
                   \/ /\ IsLoopBody(i)
                      /\ thread[i].time_paused >= BLOCKING_COMMAND_MAX_PAUSE]_vars

\* A loop that was paused and has resumed on an acknowledgment before MAX_PAUSE.
C2_Witness ==
    \E i \in LoopIds :
        /\ thread[i].alive
        /\ ~thread[i].status_polling_paused
        /\ thread[i].refreshes = 1
        /\ thread[i].time_paused < BLOCKING_COMMAND_MAX_PAUSE

\* C3: while paused, a line containing the acknowledgment that is processed before
\* MIN_PAUSE has elapsed leaves the polling paused and enqueues nothing; processed
\* with MIN_PAUSE elapsed it resumes the polling and enqueues exactly one priority
\* M114 followed by one priority M119.
C3_AckWhilePaused ==
    [][\A i \in LoopIds :
         (/\ IsLineRead(i)
          /\ rx # <<>>
          /\ ContainsAck(Head(rx))
          /\ thread[i].status_polling_paused)
         => IF thread[i].time_paused < BLOCKING_COMMAND_MIN_PAUSE
            THEN /\ thread'[i].status_polling_paused
                 /\ priority_lane' = priority_lane
            ELSE /\ ~thread'[i].status_polling_paused
                 /\ priority_lane' = priority_lane \o Refresh]_vars

\* An acknowledgment has been emitted by a loop that is still paused, too early.
C3_Witness ==
    \E i \in LoopIds :
        /\ thread[i].pc = "read"
        /\ thread[i].status_polling_paused
        /\ thread[i].time_paused < BLOCKING_COMMAND_MIN_PAUSE
        /\ events # <<>>
        /\ ContainsAck(events[Len(events)])
        /\ priority_lane = <<>>

\* C4: a paused loop whose iteration finds MAX_PAUSE elapsed is active when the
\* iteration reads, and every pause episode that has ended has issued exactly one
\* out-of-band refresh, whichever of the timeout and the acknowledgment ended it.
C4_TimeoutResumesOnce ==
    \A i \in LoopIds :
        /\ (thread[i].pc = "read" /\ thread[i].status_polling_paused)
               => thread[i].time_paused < BLOCKING_COMMAND_MAX_PAUSE
        /\ thread[i].status_polling_paused => thread[i].refreshes = 0
        /\ ~thread[i].status_polling_paused => thread[i].refreshes \in {-1, 1}

\* A pause has been ended by the timeout: MAX_PAUSE has elapsed and the refresh is
\* queued.
C4_Witness ==
    \E i \in LoopIds :
        /\ thread[i].pc = "read"
        /\ ~thread[i].status_polling_paused
        /\ thread[i].refreshes = 1
        /\ thread[i].time_paused >= BLOCKING_COMMAND_MAX_PAUSE
        /\ Len(priority_lane) >= 2

\* C6: the polling step of a paused loop enqueues neither M114 nor M119 and resets
\* neither cadence timer.
C6_NoPollingWhilePaused ==
    [][\A i \in LoopIds :
         (IsLoopBody(i) /\ thread'[i].status_polling_paused)
         => /\ priority_lane' = PriorityAfterDequeue
            /\ thread'[i].since_status = thread[i].since_status
            /\ thread'[i].since_endstop = thread[i].since_endstop]_vars

\* A paused loop has passed its polling step with both requests due.
C6_Witness ==
    \E i \in LoopIds :
        /\ thread[i].pc = "read"
        /\ thread[i].status_polling_paused
        /\ thread[i].since_status > SERIAL_STATUS_REQUEST_INTERVAL
        /\ thread[i].since_endstop > SERIAL_ENDSTOP_REQUEST_INTERVAL

\* The scheduling of the loops: a started loop thread keeps running its iterations,
\* and the clock read at line 74 keeps advancing (every iteration sleeps, line 89).
\* LoopBody(i) and LoopRead(i) are enabled exactly while the loop is inside its
\* iteration, and LoopRead(i) leaves it after at most lines_left steps, so that weak
\* fairness of the two is the loop being outside its iteration again and again.
LiveSpec ==
    /\ Spec
    /\ \A i \in LoopIds :
          /\ WF_vars(LoopHead(i, Ticks))
          /\ SF_vars(LoopHead(i, Advancing))
          /\ []<>(thread[i].pc \notin {"process", "read"})

\* A blocking command is waiting in the command channel.
BlockingQueued ==
    \/ \E k \in 1..Len(priority_lane) : StartsWithBlockingPrefix(priority_lane[k])
    \/ \E k \in 1..Len(normal_lane) : StartsWithBlockingPrefix(normal_lane[k])

\* C5 as stated: a paused loop that keeps iterating on an open handle is eventually
\* active again.
C5_AlwaysResumes ==
    \A i \in LoopIds :
        (thread[i].alive /\ thread[i].status_polling_paused)
            ~> (~thread[i].status_polling_paused \/ ~thread[i].alive \/ ~isOpen)

\* C5: a paused loop that keeps iterating on an open handle is eventually active
\* again, unless a further blocking command is queued before it is: writing one
\* restarts the pause.
C5_ResumesUnlessRestarted ==
    \A i \in LoopIds :
        (thread[i].alive /\ thread[i].status_polling_paused)
            ~> (\/ ~thread[i].status_polling_paused
                \/ ~thread[i].alive
                \/ ~isOpen
                \/ BlockingQueued)

\* A loop whose pause has run into MAX_PAUSE and is active again on an open handle.
C5_Witness ==
    \E i \in LoopIds :
        /\ thread[i].pc = "top"
        /\ thread[i].running
        /\ isOpen /\ ~linkDown
        /\ ~thread[i].status_polling_paused
        /\ thread[i].refreshes = 1
        /\ thread[i].time_paused >= BLOCKING_COMMAND_MAX_PAUSE
        /\ events = <<>> /\ rx = <<>>

\* A step of some loop through its command queue and polling.
SomeLoopBody == \E i \in LoopIds : IsLoopBody(i)

\* The step adds a request to the priority lane, beyond what it dequeues.
RequestAdded ==
    IF SomeLoopBody
    THEN Len(priority_lane') > Len(PriorityAfterDequeue)
    ELSE Len(priority_lane') > Len(priority_lane)

\* A running loop is paused before and after the step.
PausedThroughout ==
    \E i \in LoopIds :
        /\ thread[i].alive
        /\ thread[i].status_polling_paused
        /\ thread'[i].status_polling_paused

\* C7: no position or endstop request is added to the command channel while the
\* loop is paused, whoever enqueues: the loop's polling, the manual refresh of
\* request_position_update, or the refresh the router requests during homing.
C7_NoRequestWhilePaused ==
    [][RequestAdded => ~PausedThroughout]_vars

\* The step is a step of loop i (stop() by the manager only clears its running flag).
IsLoopStep(i) ==
    \/ thread'[i].pc # thread[i].pc
    \/ thread'[i].lines_left # thread[i].lines_left

\* C8: once a loop has emitted the Disconnect event it reads nothing, writes nothing,
\* enqueues nothing and emits nothing any more: the iteration that emits it adds no
\* request, and the later steps of the loop leave the buffer, the lanes and the
\* emitted events alone.
C8_DisconnectTerminal ==
    [][\A i \in LoopIds :
         /\ (IsLoopBody(i) /\ thread'[i].disconnects > thread[i].disconnects)
                => priority_lane' = PriorityAfterDequeue
         /\ (IsLoopStep(i) /\ thread[i].disconnects >= 1)
                => /\ events' = events
                   /\ rx' = rx
                   /\ priority_lane' = priority_lane
                   /\ normal_lane' = normal_lane]_vars

\* An I/O call of loop i fails in this step: the pending-byte probe of line 68, the
\* write of line 101, or inWaiting()/readline() of lines 160-163.
IoFailure(i) ==
    /\ IoFails
    /\ \/ /\ thread[i].pc = "top" /\ thread'[i].pc # "top"
          /\ thread[i].running /\ isOpen
       \/ /\ IsLoopBody(i)
          /\ Dequeued # "none"
       \/ /\ thread[i].pc = "read" /\ thread'[i].pc # "read"
          /\ thread[i].lines_left > 0

C10_OneWorkerInFlight == Cardinality(BusyWorkers) <= 1

\* I/O loop threads that are alive.
AliveLoops == {i \in LoopIds : thread[i].alive}

\* C11: at no time are two I/O loop threads alive together, whatever the
\* interleaving of connect(), disconnect(), the connect worker and the join waits.
C11_OneLoopAlive == Cardinality(AliveLoops) <= 1

\* C12: the state becomes Connected only directly from Connecting, so that a
\* disconnect() issued while Connecting is not overtaken by the connect worker and
\* the state stays other than Connected after it until connect() is called again.
C12_ConnectedOnlyFromConnecting ==
    [][(state' = "connected" /\ state # "connected") => state = "connecting"]_vars

\* The step is a call of connect() with a port and a baud rate.
IsConnectCall ==
    /\ notified' # notified
    /\ notified'.call = "connect"
    /\ gui.pc = "idle"
    /\ notified'.port # "" /\ notified'.baudrate # ""

\* Worker w is started by the step.
IsStarted(w) == worker[w].pc = "none" /\ worker'[w].pc # "none"

\* The step is a step of worker w, ending it or not.
IsWorkerStep(w) == worker[w].pc # "none" /\ worker'[w] # worker[w]
IsWorkerEnd(w) == worker[w].pc # "none" /\ worker'[w].pc = "none"

\* C13: connect() with a port and a baud rate in state Disconnected sets Connecting
\* and starts a worker with these values; the worker leaves the state alone and emits
\* nothing until, the port opened and the new I/O loop started, it sets Connected
\* and then emits connected(port, baud) with the requested values.
C13_ConnectSequence ==
    [][/\ (IsConnectCall /\ state = "disconnected")
            => /\ state' = "connecting"
               /\ notified'.out = <<StateChanged("connecting")>>
               /\ \E w \in WorkerIds :
                    /\ IsStarted(w)
                    /\ worker'[w].port = notified'.port
                    /\ worker'[w].baudrate = notified'.baudrate
       /\ \A w \in WorkerIds :
            /\ (IsWorkerStep(w) /\ ~IsWorkerEnd(w))
                    => state' = state /\ notified' = notified
            /\ (IsWorkerEnd(w) /\ worker[w].pc = "finish")
                    => /\ FreeLoops # LoopIds
                       /\ state' = "connected"
                       /\ notified'.out =
                            <<StateChanged("connected"),
                              Connected(worker[w].port, worker[w].baudrate)>>]_vars

\* The first connect() has succeeded: the loop runs, connected("COM3", "115200") was
\* emitted after the change to Connected.
C13_Witness ==
    /\ state = "connected"
    /\ notified.out = <<StateChanged("connected"), Connected("COM3", "115200")>>
    /\ serial_thread # 0
    /\ thread[serial_thread].alive

\* C14: a connect worker that ends anywhere before its last step has raised: the
\* state becomes Error and it emits exactly one error(message) and no connected();
\* a baud rate that int() rejects and a handle that is already open are such ends.
C14_WorkerFailure ==
    [][\A w \in WorkerIds :
         /\ (IsWorkerEnd(w) /\ worker[w].pc # "finish")
                => /\ state' = "error"
                   /\ notified' = Notice("worker", worker[w].port, worker[w].baudrate,
                                         <<StateChanged("error"), Error>>)
         /\ (IsWorkerStep(w) /\ worker[w].pc = "close"
                             /\ int_raises(BaudText(worker[w].baudrate)))
                => IsWorkerEnd(w)
         /\ (IsWorkerStep(w) /\ worker[w].pc = "open" /\ isOpen)
                => IsWorkerEnd(w)]_vars

\* A worker has failed on int(baudrate): state Error, one error(message).
C14_Witness ==
    /\ state = "error"
    /\ notified = Notice("worker", "COM3", "auto", <<StateChanged("error"), Error>>)
    /\ BusyWorkers = {}

\* ManagerSpec: the connection manager alone with its loops: connect() and
\* disconnect() called at any time, the workers, the loops iterating on an idle
\* link.  ManagerLiveSpec adds the scheduling: a started worker thread keeps
\* running (every call it makes returns), and the controlling context comes back
\* from the bounded wait of disconnect().  The loops are not scheduled: one may
\* stay blocked inside an iteration.
ManagerNext ==
    \/ \E i \in LoopIds : SystemLoopStep(i)
    \/ \E w \in WorkerIds : WorkerStep(w)
    \/ \E port \in Ports, baudrate \in Bauds : connect(port, baudrate)
    \/ disconnect
    \/ disconnect_finish

ManagerSpec == Init /\ [][ManagerNext]_vars

ManagerLiveSpec ==
    /\ ManagerSpec
    /\ \A w \in WorkerIds : WF_vars(WorkerStep(w))
    /\ WF_vars(disconnect_finish)

\* An outcome of a connection attempt with these arguments.
Outcomes(port, baudrate) ==
    {<<StateChanged("connected"), Connected(port, baudrate)>>,
     <<StateChanged("error"), Error>>}

\* C15: a started connect worker eventually ends; it emits nothing before its end
\* and at its end exactly one outcome for its attempt, connected(port, baud) or
\* error(message).
C15_AttemptHasOneOutcome ==
    /\ \A w \in WorkerIds : (worker[w].pc # "none") ~> (worker[w].pc = "none")
    /\ (gui.pc = "disc_wait" /\ gui.then = "connect")
            ~> (\E w \in WorkerIds : worker[w].pc = "stop")
    /\ [][\A w \in WorkerIds :
            /\ (IsWorkerStep(w) /\ ~IsWorkerEnd(w)) => notified' = notified
            /\ IsWorkerEnd(w)
                 => /\ notified'.call = "worker"
                    /\ notified'.port = worker[w].port
                    /\ notified'.baudrate = worker[w].baudrate
                    /\ notified'.out \in Outcomes(worker[w].port, worker[w].baudrate)]_vars

\* An attempt has ended with error(message) because the port did not open.
C15_Witness ==
    /\ notified = Notice("worker", "COM3", "115200", <<StateChanged("error"), Error>>)
    /\ BusyWorkers = {}
    /\ ~isOpen
    /\ state = "error"

\* The step is a call of connect() without a port or without a baud rate.
IsRejectedCall ==
    /\ notified' # notified
    /\ notified'.call = "connect"
    /\ gui.pc = "idle"
    /\ notified'.port = "" \/ notified'.baudrate = ""

\* C16: connect() with an empty port or an empty baud rate emits one error(message)
\* and changes nothing: no worker, no teardown, the same state, handle and loops.
C16_RejectsEmptyArguments ==
    [][IsRejectedCall
         => /\ notified'.out = <<Error>>
            /\ UNCHANGED <<serialVars, thread, events, state, current_port,
                           current_baudrate, serial_thread, gui, worker,
                           is_homing>>]_vars

\* connect("", "115200") has been rejected on a session that is still up.
C16_Witness ==
    /\ notified = Notice("connect", "", "115200", <<Error>>)
    /\ is_connected
    /\ ThreadIsRunning
    /\ thread[serial_thread].running
    /\ BusyWorkers = {}

\* The step raises inside the disconnect() that connect() calls.
ReconnectRaised ==
    notified'.out = <<StateChanged("error"), Error, StateChanged("connecting")>>

IsDisconnectEnd ==
    /\ notified' # notified
    /\ notified'.call = "disconnect"
    /\ gui'.pc = "idle"

DisconnectRaised == notified'.out = <<StateChanged("error"), Error>>

\* C18: disconnect() first clears the running flag of a running loop and waits; when
\* it ends without having raised, the handle is closed, the cached port and baud
\* rate and the loop reference are cleared, the state is Disconnected, and it has
\* emitted the state change and then disconnected(), once.
C18_DisconnectTeardown ==
    [][/\ (gui.pc = "idle" /\ gui'.pc = "disc_wait" /\ gui'.then = "return")
            => /\ ThreadIsRunning
               /\ ~thread'[serial_thread].running
               /\ notified'.out = <<>>
               /\ UNCHANGED <<state, isOpen, serial_thread>>
       /\ (IsDisconnectEnd /\ ~DisconnectRaised)
            => /\ ~isOpen'
               /\ current_port' = "" /\ current_baudrate' = ""
               /\ serial_thread' = 0
               /\ state' = "disconnected"
               /\ notified'.out = <<StateChanged("disconnected"), Disconnected>>]_vars

\* disconnect() has ended on a session whose loop it told to stop.
C18_Witness ==
    /\ notified = Notice("disconnect", "", "",
                         <<StateChanged("disconnected"), Disconnected>>)
    /\ state = "disconnected"
    /\ ~isOpen
    /\ serial_thread = 0
    /\ current_port = ""
    /\ BusyWorkers = {}
    /\ \E i \in LoopIds : thread[i].pc = "exited" /\ ~thread[i].running

\* The loop the manager refers to has not exited.
LoopStillAlive == serial_thread # 0 /\ thread[serial_thread].alive

\* C19: a disconnect() that waits for the loop always returns, and when the loop has
\* not exited by then it still closes the handle, sets Disconnected and emits
\* disconnected() (or, its close having raised, ends as an error).
C19_DisconnectTerminates ==
    /\ (gui.pc = "disc_wait" /\ gui.then = "return")
            ~> (/\ gui.pc = "idle"
                /\ notified.call = "disconnect"
                /\ notified.out \in {<<StateChanged("disconnected"), Disconnected>>,
                                     <<StateChanged("error"), Error>>})
    /\ [][(gui.pc = "disc_wait" /\ LoopStillAlive /\ IsDisconnectEnd
                                /\ ~DisconnectRaised)
            => /\ ~isOpen'
               /\ state' = "disconnected"
               /\ notified'.out[2] = Disconnected
               /\ thread'[serial_thread].alive]_vars

\* disconnect() has returned while the loop it stopped is still inside an iteration.
C19_Witness ==
    /\ gui.pc = "idle"
    /\ notified = Notice("disconnect", "", "",
                         <<StateChanged("disconnected"), Disconnected>>)
    /\ state = "disconnected"
    /\ ~isOpen
    /\ \E i \in LoopIds :
          thread[i].alive /\ ~thread[i].running /\ thread[i].pc = "read"

\* C20: a disconnect() that does not end in Disconnected has raised inside: it
\* returns all the same, the state is Error, and it has emitted the state change
\* and one error(message), and no disconnected().
C20_DisconnectFailure ==
    [][(IsDisconnectEnd
          /\ notified'.out # <<StateChanged("disconnected"), Disconnected>>)
         => /\ state' = "error"
            /\ notified'.out = <<StateChanged("error"), Error>>
            /\ worker' = worker]_vars

\* disconnect() has raised at its close: state Error, the handle still open.
C20_Witness ==
    /\ gui.pc = "idle"
    /\ notified = Notice("disconnect", "", "", <<StateChanged("error"), Error>>)
    /\ state = "error"
    /\ isOpen
    /\ BusyWorkers = {}

\* StopSpec: one session in which the loop is stopped at any point of its iteration,
\* with a command to write, a line to read and the device liable to be lost; the
\* loops are scheduled as in LiveSpec.
StopCommands == {"G1"}
StopLines == {"ok"}

StopNext ==
    \/ \E i \in LoopIds : LoopStep(i)
    \/ \E w \in WorkerIds : SessionWorkerStep(w)
    \/ \E port \in Ports, baudrate \in Bauds : FirstSession /\ connect(port, baudrate)
    \/ disconnect
    \/ disconnect_finish
    \/ \E c \in StopCommands : send_command(c)
    \/ \E l \in StopLines : DeviceSend(l)
    \/ Unplug
    \/ route_response

StopSpec ==
    /\ Init /\ [][StopNext]_vars
    /\ \A i \in LoopIds :
          /\ WF_vars(LoopHead(i, Ticks))
          /\ []<>(thread[i].pc \notin {"process", "read"})

\* The step is a call of stop() on loop i: the flag is cleared outside the loop's
\* own steps.
IsStopCall(i) ==
    /\ thread[i].running /\ ~thread'[i].running
    /\ thread'[i].pc = thread[i].pc

\* C21: stop() only clears the running flag; a loop whose flag is cleared starts no
\* further iteration, and, its I/O calls returning, it exits.
C21_CooperativeStop ==
    /\ \A i \in LoopIds :
          (thread[i].alive /\ ~thread[i].running) ~> ~thread[i].alive
    /\ [][\A i \in LoopIds :
            /\ IsStopCall(i) => thread'[i] = [thread[i] EXCEPT !.running = FALSE]
            /\ (thread[i].alive /\ ~thread[i].running)
                   => ~(thread[i].pc = "top" /\ thread'[i].pc = "process")]_vars

\* A loop stopped by disconnect() has left through its while test: it has exited
\* without ever emitting the Disconnect event.
C21_Witness ==
    \E i \in LoopIds :
        /\ thread[i].pc = "exited"
        /\ thread[i].disconnects = 0
        /\ notified.call = "disconnect"

\* q is p, possibly with requests appended.
IsExtension(q, p) == Len(q) >= Len(p) /\ SubSeq(q, 1, Len(p)) = p

IsManualRefresh ==
    /\ priority_lane' # priority_lane
    /\ thread' = thread
    /\ events' = events

\* C23: request_position_update() enqueues the position request followed by the
\* endstop request on the priority lane when the manager is connected, and nothing
\* when it is not.
C23_RefreshOnlyWhenConnected ==
    [][IsManualRefresh
         => /\ is_connected
            /\ priority_lane' = priority_lane \o <<"M114", "M119">>]_vars

\* Loop i emits the Disconnect event or ends in this step.
LoopEndsItself(i) ==
    \/ thread'[i].disconnects > thread[i].disconnects
    \/ thread[i].alive /\ ~thread'[i].alive

\* The router is handed the Disconnect line in this step.
RoutesDisconnect ==
    /\ events # <<>>
    /\ Head(events) = "SERIAL-DISCONNECTED"
    /\ events' = Tail(events)

HasRouted == routed.data # "none"

\* The classification of the line of the observed call.
Classification == identify_response_type(LineText(routed.data))

\* The observed call was made inside the manual-echo window.
InWindow == routed.age < MANUAL_COMMAND_DISPLAY_DURATION

\* C25: the disconnect sentinel is routed by invoking the disconnect handler once,
\* and nothing else, and returning Disconnect, handled, not shown, whatever the
\* manual-echo window, the homing flag and the three flags are.
C25_DisconnectRouting ==
    (HasRouted /\ LineText(routed.data) = DISCONNECT_MARKER)
        => routed.result = [response_type |-> "DISCONNECT", handled |-> TRUE,
                            show_in_console |-> FALSE,
                            calls |-> <<"disconnect_handler">>]

\* The sentinel routed inside the manual-echo window, homing, with every flag set.
C25_Witness ==
    /\ routed.data = "SERIAL-DISCONNECTED"
    /\ InWindow
    /\ routed.homing
    /\ routed.verbose_show /\ routed.ok_show /\ routed.sync_pending
    /\ routed.result.calls = <<"disconnect_handler">>

HomingCalls == {"set_homing_complete", "request_position_update", "set_sync_pending"}

IsHomingCall(call) == call \in HomingCalls

\* C26: an acknowledgment routed while homing invokes homing-complete, the position
\* refresh and set-sync-pending, once each and in that order, inside the manual-echo
\* window too; no other line, and no line routed while not homing, invokes any.
C26_HomingCompletion ==
    HasRouted
        => SelectSeq(routed.result.calls, IsHomingCall)
             = IF Classification = "OK" /\ routed.homing
               THEN <<"set_homing_complete", "request_position_update",
                      "set_sync_pending">>
               ELSE <<>>

\* An acknowledgment routed inside the manual-echo window while homing: the three
\* callbacks were invoked and the homing flag is down.
C26_Witness ==
    /\ HasRouted
    /\ Classification = "OK"
    /\ routed.homing
    /\ InWindow
    /\ Len(routed.result.calls) = 3
    /\ ~is_homing

\* C27 as stated: a position report invokes the position handler, followed by
\* sync-trigger exactly when syncPending is set.
C27_PositionSync ==
    (HasRouted /\ Classification = "POSITION")
        => routed.result.calls
             = IF routed.sync_pending THEN <<"position_handler", "trigger_sync">>
               ELSE <<"position_handler">>

\* C27: a position report routed outside the manual-echo window invokes the position
\* handler, followed by sync-trigger exactly when syncPending is set; one routed
\* inside the window invokes neither.
C27_PositionSyncOutsideWindow ==
    (HasRouted /\ Classification = "POSITION")
        => routed.result.calls
             = IF InWindow THEN <<>>
               ELSE IF routed.sync_pending
               THEN <<"position_handler", "trigger_sync">>
               ELSE <<"position_handler">>

\* A position report routed outside the window with a sync pending.
C27_Witness ==
    /\ HasRouted
    /\ Classification = "POSITION"
    /\ ~InWindow
    /\ routed.sync_pending
    /\ routed.result.calls = <<"position_handler", "trigger_sync">>

\* C28: inside the manual-echo window every line but the sentinel is returned as
\* shown and not handled, whatever its classification and the show flags.
C28_ManualEchoOverride ==
    (HasRouted /\ InWindow /\ Classification # "DISCONNECT")
        => /\ routed.result.show_in_console
           /\ ~routed.result.handled

\* An endstop report routed inside the window, and shown.
C28_Witness ==
    /\ HasRouted
    /\ InWindow
    /\ Classification = "ENDSTOP"
    /\ ~routed.verbose_show /\ ~routed.ok_show
    /\ routed.result.show_in_console

\* C29: outside the manual-echo window an endstop report invokes the endstop handler
\* and is handled and not shown, a position report is handled and shown under
\* verboseShow, an acknowledgment is handled and shown under okShow, and any other
\* line is not handled and shown.
C29_RoutingTable ==
    (HasRouted /\ ~InWindow)
        => LET result == routed.result
               outcome == <<result.response_type, result.handled,
                            result.show_in_console>>
           IN  CASE Classification = "ENDSTOP"
                      -> /\ outcome = <<"ENDSTOP", TRUE, FALSE>>
                         /\ result.calls = <<"endstop_handler">>
                 [] Classification = "POSITION"
                      -> outcome = <<"POSITION", TRUE, routed.verbose_show>>
                 [] Classification = "OK"
                      -> outcome = <<"OK", TRUE, routed.ok_show>>
                 [] Classification = "OTHER"
                      -> outcome = <<"OTHER", FALSE, TRUE>>
                 [] OTHER -> TRUE

\* An acknowledgment routed outside the window with okShow set and verboseShow not.
C29_Witness ==
    /\ HasRouted
    /\ ~InWindow
    /\ Classification = "OK"
    /\ routed.ok_show /\ ~routed.verbose_show
    /\ routed.result.show_in_console

\* C30: before any mark the window is inactive; the window start moves only to the
\* current time, by a mark, also when a window is running; routing a line leaves it
\* alone; a line is overridden exactly when it is routed less than the echo duration
\* after the start.
C30_EchoWindow ==
    /\ manual_command_age >= MANUAL_COMMAND_DISPLAY_DURATION
    /\ [][/\ manual_command_age' < manual_command_age => manual_command_age' = 0
          /\ (events # <<>> /\ events' = Tail(events))
                => manual_command_age' = manual_command_age]_vars
    /\ []((HasRouted /\ Classification \in {"ENDSTOP", "POSITION", "OK"})
            => (routed.result.handled <=> ~InWindow))

\* A line was overridden one tick after a mark, a second mark has restarted the
\* window since, and the next line is waiting to be routed.
C30_Witness ==
    /\ HasRouted
    /\ routed.age = 1
    /\ ~routed.result.handled
    /\ manual_command_age = 0
    /\ events # <<>>

\* The pause of loop i ends in this pass through the command queue and the polling:
\* only the timeout ends one there.
TimesOut(i) ==
    /\ IsLoopBody(i)
    /\ thread[i].status_polling_paused
    /\ ~thread'[i].status_polling_paused

PositionDue(i) == thread[i].since_status > SERIAL_STATUS_REQUEST_INTERVAL
EndstopDue(i) == thread[i].since_endstop > SERIAL_ENDSTOP_REQUEST_INTERVAL

\* C31: an iteration whose polling is active enqueues a position request exactly when
\* the position interval has elapsed, and then restarts the position timer only; it
\* enqueues an endstop request exactly when the endstop interval has elapsed, and
\* then restarts the endstop timer only.
C31_IndependentCadences ==
    [][\A i \in LoopIds :
         (IsLoopBody(i) /\ ~thread'[i].status_polling_paused)
            => /\ priority_lane'
                    = PriorityAfterDequeue
                        \o (IF TimesOut(i) THEN <<"M114", "M119">> ELSE <<>>)
                        \o (IF PositionDue(i) THEN <<"M114">> ELSE <<>>)
                        \o (IF EndstopDue(i) THEN <<"M119">> ELSE <<>>)
               /\ thread'[i].since_status
                    = IF PositionDue(i) THEN 0 ELSE thread[i].since_status
               /\ thread'[i].since_endstop
                    = IF EndstopDue(i) THEN 0 ELSE thread[i].since_endstop]_vars

\* An active loop has enqueued a position request and restarted the position timer,
\* while the endstop timer, not yet due, runs on.
C31_Witness ==
    \E i \in LoopIds :
        /\ thread[i].pc = "read"
        /\ ~thread[i].status_polling_paused
        /\ thread[i].since_status = 0
        /\ thread[i].since_endstop = SERIAL_ENDSTOP_REQUEST_INTERVAL
        /\ priority_lane # <<>>
        /\ priority_lane[Len(priority_lane)] = "M114"

\* Loop i is created and started in this step.
IsCreated(i) == thread[i].pc = "none" /\ thread'[i].pc # "none"

\* C32: every loop a connect worker creates starts with its polling active and no
\* pause running, whatever state the earlier loops were left in.
C32_NewLoopActive ==
    [][\A i \in LoopIds :
         IsCreated(i)
            => /\ ~thread'[i].status_polling_paused
               /\ thread'[i].running
               /\ thread'[i].refreshes = -1]_vars

\* A loop has ended paused, and the loop of the next connection, which the manager
\* now announces as connected, is active.
C32_Witness ==
    \E i, j \in LoopIds :
        /\ thread[i].pc = "exited"
        /\ thread[i].status_polling_paused
        /\ serial_thread = j
        /\ thread[j].alive
        /\ ~thread[j].status_polling_paused
        /\ state = "connected"

\* The most lines an iteration that found n pending bytes may read.
ReadLimit(n) ==
    CASE n = 0 -> 0
      [] n \in 1..59 -> 1
      [] n \in 60..299 -> n \div 30
      [] OTHER -> 10

\* C33: an iteration that found n pending bytes reads at most max(1, min(10, n div 30))
\* lines, none when n is 0: it sets out with that budget, every line it reads and
\* every line event it emits takes one from the budget, and it ends when the budget
\* is used up or the buffer is empty, whatever is still pending.
C33_BoundedBatch ==
    [][\A i \in LoopIds :
         /\ (thread[i].pc = "top" /\ thread'[i].pc = "process")
                => thread'[i].bytes_available = 17 * Len(rx)
         /\ IsLoopBody(i)
                => thread'[i].lines_left = ReadLimit(thread[i].bytes_available)
         /\ IsLineRead(i)
                => /\ thread[i].lines_left > 0
                   /\ rx # <<>> /\ rx' = Tail(rx)
                   /\ events' \in {events, Append(events, Head(rx))}
         /\ (IsLoopStep(i) /\ ~IsLineRead(i))
                => /\ rx' = rx
                   /\ events' \in {events, Append(events, "SERIAL-DISCONNECTED")}
         /\ (IsLoopStep(i) /\ thread[i].pc = "read"
               /\ (thread[i].lines_left = 0 \/ rx = <<>>))
                => thread'[i].pc = "top"]_vars

\* An iteration that found more than 300 bytes sets out to read ten lines of a
\* backlog of more than ten.
C33_Witness ==
    \E i \in LoopIds :
        /\ thread[i].pc = "read"
        /\ thread[i].lines_left = 10
        /\ Len(rx) > 10

\* The router invokes homing-complete in this step: the homing flag goes down.
HomingCompleted == is_homing /\ ~is_homing'

\* A loop is in a pause younger than MIN_PAUSE: it has treated every acknowledgment
\* read since the blocking command as too early.
InEarlyPause ==
    \E i \in LoopIds :
        /\ thread[i].alive
        /\ thread[i].status_polling_paused
        /\ thread[i].time_paused < BLOCKING_COMMAND_MIN_PAUSE

\* C34: the router does not invoke homing-complete on an acknowledgment while the
\* loop that emitted it is still in the pause that the acknowledgment was too early
\* to end.
C34_HomingCompleteEndsPause ==
    [][HomingCompleted => ~InEarlyPause]_vars

\* C35: a blocking command written while the loop is paused restarts the pause at the
\* current iteration time: the loop stays paused with a pause of age 0, so that the
\* timeout of the earlier command does not fire in that iteration and no refresh is
\* issued, however long the loop had been paused.
C35_PauseRestarts ==
    [][\A i \in LoopIds :
         (WritesBlocking(i) /\ thread[i].status_polling_paused)
            => /\ thread'[i].status_polling_paused
               /\ thread'[i].time_paused = 0
               /\ thread'[i].refreshes = thread[i].refreshes
               /\ priority_lane' = PriorityAfterDequeue]_vars

\* A loop whose pause has reached MAX_PAUSE is about to go through its command
\* queue with a blocking command at the head of the channel: the write will restart
\* the pause before the timeout is tested.
C35_Witness ==
    \E i \in LoopIds :
        /\ thread[i].pc = "process"
        /\ thread[i].status_polling_paused
        /\ thread[i].time_paused >= BLOCKING_COMMAND_MAX_PAUSE
        /\ ~IoFails
        /\ Dequeued # "none"
        /\ StartsWithBlockingPrefix(Dequeued)

\* C36: a loop instance emits the Disconnect event at most once in its lifetime,
\* whatever probe, write and read failures occur.
C36_DisconnectOnce ==
    \A i \in LoopIds : thread[i].disconnects <= 1

\* The router is handed a line that it classifies as the disconnection, and invokes
\* its disconnect handler.
InvokesDisconnectHandler ==
    /\ events # <<>>
    /\ events' = Tail(events)
    /\ identify_response_type(LineText(Head(events))) = "DISCONNECT"

\* C37: the disconnect handler of the router is invoked only after a loop has
\* detected an I/O failure and emitted the Disconnect event: no line received from
\* the device is emitted and routed as the disconnection.
C37_DisconnectOnlyOnFailure ==
    [][InvokesDisconnectHandler
         => \E i \in LoopIds : thread[i].disconnects >= 1]_vars

\* The requests that the loop has added to the priority lane in this step, behind
\* what was left of the lane after the write.
Enqueued ==
    SubSeq(priority_lane', Len(PriorityAfterDequeue) + 1, Len(priority_lane'))

Occurrences(request, lane) ==
    Cardinality({k \in 1..Len(lane) : lane[k] = request})

\* C38: the command, timeout and polling phases of one iteration enqueue at most
\* one position request and at most one endstop request, the iterations in which a
\* timeout resumes the polling included.
C38_OneRequestPerIteration ==
    [][\A i \in LoopIds :
         IsLoopBody(i)
            => /\ Occurrences("M114", Enqueued) <= 1
               /\ Occurrences("M119", Enqueued) <= 1]_vars

\* C39: whenever the connection state is Error, the serial handle is closed and no
\* I/O loop thread is running: a failed connection attempt leaves no half-open
\* session behind.
C39_ErrorLeavesNothingOpen ==
    state = "error"
       => /\ ~isOpen
          /\ \A i \in LoopIds : ~thread[i].alive

\* Loop i runs with the handle open and the device there.
Serving(i) == thread[i].alive /\ thread[i].running /\ isOpen /\ ~linkDown

\* The command phase of loop i finds the priority lane empty in this step.
FindsPriorityEmpty(i) == IsLoopBody(i) /\ priority_lane = <<>>

====
